---- MODULE Spec2Model ----
(***************************************************************************)
(* Model of go/discovery/discovery.go: the discovery Queue, an ordered     *)
(* queue with no duplicates whose entries are handed to a processor in at  *)
(* most maxConcurrency go-routines.                                        *)
(*                                                                         *)
(* One coordinator go-routine runs HandleRequests; every dispatch spawns a *)
(* job go-routine that calls the processor and then sends its key on the   *)
(* unbuffered done channel.  The coordinator's position is pc; the steps   *)
(* of one function follow each other through pc, so that the mutex and the *)
(* states inside a critical section are visible.                           *)
(***************************************************************************)
EXTENDS Integers, Sequences, FiniteSets

\* ------------------------------------------------------------------ bounds
\* number of values the producer sends on inputChan before it closes it
MaxArrivals == 3
\* largest maxConcurrency given to NewQueue
MaxConcurrencyBound == 2

\* ------------------------------------------------------------- identifiers
\* var emptyKey = inst.InstanceKey{}  : the zero value of the key type
emptyKey == ""
\* the non-empty instance keys a producer sends
Keys == {"A", "B", "C"}
AllKeys == Keys \cup {emptyKey}

\* Go's uint: the largest value the counter holds before ++ wraps to 0 and
\* the value that -- gives on 0 (the largest integer TLC represents stands
\* for 2^w - 1).
UintMax == 2147483647
UintInc(c) == IF c = UintMax THEN 0 ELSE c + 1
UintDec(c) == IF c = 0 THEN UintMax ELSE c - 1

VARIABLES
    \* fields of Queue
    concurrency,      \* number of active go routines
    knownKeys,        \* keys of map[InstanceKey]bool
    lock,             \* sync.Mutex: TRUE when held
    maxConcurrency,
    queue,            \* []InstanceKey
    \* the input channel, seen from its producer
    closed,           \* close(inputChan) has been called
    nArrivals,        \* values received from inputChan so far
    \* the coordinator go-routine
    pc,               \* position in HandleRequests and its callees
    key,              \* the local key of the function being executed
    ok,               \* second result of the receive from inputChan
    found,            \* the local found of push
    caller,           \* the function that made the innermost call in progress
    \* the job go-routines, counted per key and position
    spawned,          \* created by the go statement, processor not yet called
    running,          \* inside q.processor(key)
    sending,          \* blocked in q.done <- key
    \* observable history
    accepted,         \* keys appended by push, in order
    dispatched,       \* keys for which dispatch ran the go statement, in order
    invoked,          \* keys on which the processor was called, in order
    warnings          \* number of log.Warningf calls

vars == <<concurrency, knownKeys, lock, maxConcurrency, queue, closed,
          nArrivals, pc, key, ok, found, caller, spawned, running, sending,
          accepted, dispatched, invoked, warnings>>

qstate == <<concurrency, knownKeys, queue>>
jobs == <<spawned, running, sending>>
history == <<accepted, dispatched, invoked, warnings>>
input == <<closed, nArrivals>>

Count(s, x) == Cardinality({i \in 1..Len(s) : s[i] = x})
InSeq(s, x) == \E i \in 1..Len(s) : s[i] = x
NoJobs == [k \in AllKeys |-> 0]
Active(k) == spawned[k] + running[k] + sending[k]
\* 1 when the coordinator has received k from done and has not yet run the
\* body of acknowledgeJob for it
Unacknowledged(k) ==
    IF pc \in {"ack_lock", "ack_body"} /\ key = k THEN 1 ELSE 0
RECURSIVE Sum(_, _)
Sum(f, S) == IF S = {} THEN 0
             ELSE LET x == CHOOSE y \in S : TRUE IN f[x] + Sum(f, S \ {x})
NumRunning == Sum(running, AllKeys)
NumActive == Sum(spawned, AllKeys) + Sum(running, AllKeys) + Sum(sending, AllKeys)

\* ------------------------------------------------------------ construction
NewQueue(mc) ==
    /\ concurrency = 0
    /\ knownKeys = {}
    /\ maxConcurrency = mc
    /\ queue = <<>>
    /\ lock = FALSE

Init ==
    /\ \E mc \in 1..MaxConcurrencyBound : NewQueue(mc)
    /\ closed = FALSE
    /\ nArrivals = 0
    /\ pc = "select"
    /\ key = emptyKey
    /\ ok = TRUE
    /\ found = FALSE
    /\ caller = "HandleRequests"
    /\ spawned = NoJobs /\ running = NoJobs /\ sending = NoJobs
    /\ accepted = <<>> /\ dispatched = <<>> /\ invoked = <<>>
    /\ warnings = 0

\* ------------------------------------------------------------ the producer
\* the owner of the input channel closes it
CloseInput ==
    /\ ~closed
    /\ closed' = TRUE
    /\ UNCHANGED <<qstate, lock, maxConcurrency, nArrivals, pc, key, ok,
                   found, caller, jobs, history>>

\* ------------------------------------------------------- the job go-routine
\* go func() { q.processor(key); q.done <- key }()
processor_Start(k) ==
    /\ spawned[k] > 0
    /\ spawned' = [spawned EXCEPT ![k] = @ - 1]
    /\ running' = [running EXCEPT ![k] = @ + 1]
    /\ invoked' = Append(invoked, k)
    /\ UNCHANGED <<qstate, lock, maxConcurrency, input, pc, key, ok, found,
                   caller, sending, accepted, dispatched, warnings>>

\* a job that records its own completion instead of sending on done
processor_Return_SelfAck(k) ==
    /\ running[k] > 0
    /\ running' = [running EXCEPT ![k] = @ - 1]
    /\ knownKeys' = knownKeys \ {k}
    /\ concurrency' = UintDec(concurrency)
    /\ UNCHANGED <<queue, lock, maxConcurrency, input, pc, key, ok, found,
                   caller, spawned, sending, history>>

processor_Return(k) ==
    /\ running[k] > 0
    /\ running' = [running EXCEPT ![k] = @ - 1]
    /\ sending' = [sending EXCEPT ![k] = @ + 1]
    /\ UNCHANGED <<qstate, lock, maxConcurrency, input, pc, key, ok, found,
                   caller, spawned, history>>

\* ------------------------------------------------------------------- push
\* push without the lookup in knownKeys: every key is appended
push_Always(k) ==
    /\ found' = (k \in knownKeys)
    /\ knownKeys' = knownKeys \cup {k}
    /\ queue' = Append(queue, k)
    /\ accepted' = Append(accepted, k)

\* add the key to the slice if it does not exist in known keys
push(k) ==
    /\ found' = (k \in knownKeys)
    /\ IF k \notin knownKeys
       THEN /\ knownKeys' = knownKeys \cup {k}
            /\ queue' = Append(queue, k)
            /\ accepted' = Append(accepted, k)
       ELSE UNCHANGED <<knownKeys, queue, accepted>>

\* -------------------------------------------------------------------- pop
\* pop taking the newest entry instead of the oldest
pop_Last ==
    IF Len(queue) = 0
    THEN /\ pc' = "fatal"
         /\ UNCHANGED <<key, queue, knownKeys>>
    ELSE /\ key' = queue[Len(queue)]
         /\ queue' = SubSeq(queue, 1, Len(queue) - 1)
         /\ knownKeys' = knownKeys \ {queue[Len(queue)]}
         /\ pc' = "dispatch_go"

\* pop that returns the head and leaves it in the queue
pop_NoRemove ==
    IF Len(queue) = 0
    THEN /\ pc' = "fatal"
         /\ UNCHANGED <<key, queue, knownKeys>>
    ELSE /\ key' = queue[1]
         /\ queue' = queue
         /\ knownKeys' = knownKeys \ {queue[1]}
         /\ pc' = "dispatch_go"

\* remove the entry and remove it from known keys; log.Fatal ends the
\* process when the queue is empty
pop ==
    IF Len(queue) = 0
    THEN /\ pc' = "fatal"
         /\ UNCHANGED <<key, queue, knownKeys>>
    ELSE /\ key' = queue[1]
         /\ queue' = Tail(queue)
         /\ knownKeys' = knownKeys \ {queue[1]}
         /\ pc' = "dispatch_go"

\* --------------------------------------------------------------- dispatch
\* key := q.pop()
dispatch_Pop ==
    /\ pc = "dispatch_pop"
    /\ pop
    /\ UNCHANGED <<concurrency, lock, maxConcurrency, input, ok, found,
                   caller, jobs, history>>

\* dispatch that does not put the key back into knownKeys
dispatch_Go_NoReinsert ==
    /\ pc = "dispatch_go"
    /\ concurrency' = UintInc(concurrency)
    /\ spawned' = [spawned EXCEPT ![key] = @ + 1]
    /\ dispatched' = Append(dispatched, key)
    /\ pc' = IF caller = "queueAndMaybeDispatch" THEN "qd_unlock" ELSE "md_unlock"
    /\ UNCHANGED <<knownKeys, queue, lock, maxConcurrency, input, key, ok,
                   found, caller, running, sending, accepted, invoked,
                   warnings>>

\* dispatch that does not count the new job
dispatch_Go_NoCount ==
    /\ pc = "dispatch_go"
    /\ knownKeys' = knownKeys \cup {key}
    /\ spawned' = [spawned EXCEPT ![key] = @ + 1]
    /\ dispatched' = Append(dispatched, key)
    /\ pc' = IF caller = "queueAndMaybeDispatch" THEN "qd_unlock" ELSE "md_unlock"
    /\ UNCHANGED <<concurrency, queue, lock, maxConcurrency, input, key, ok,
                   found, caller, running, sending, accepted, invoked,
                   warnings>>

\* q.concurrency++ ; q.knownKeys[key] = true ; go func() {...}()
dispatch_Go ==
    /\ pc = "dispatch_go"
    /\ concurrency' = UintInc(concurrency)
    /\ knownKeys' = knownKeys \cup {key}
    /\ spawned' = [spawned EXCEPT ![key] = @ + 1]
    /\ dispatched' = Append(dispatched, key)
    /\ pc' = IF caller = "queueAndMaybeDispatch" THEN "qd_unlock" ELSE "md_unlock"
    /\ UNCHANGED <<queue, lock, maxConcurrency, input, key, ok, found, caller,
                   running, sending, accepted, invoked, warnings>>

\* --------------------------------------------------------- acknowledgeJob
\* acknowledgeJob that goes on without taking the mutex
acknowledgeJob_Lock_NoLock ==
    /\ pc = "ack_lock"
    /\ pc' = "ack_body"
    /\ UNCHANGED <<qstate, lock, maxConcurrency, input, key, ok, found, caller,
                   jobs, history>>

acknowledgeJob_Lock ==
    /\ pc = "ack_lock"
    /\ lock = FALSE
    /\ lock' = TRUE
    /\ pc' = "ack_body"
    /\ UNCHANGED <<qstate, maxConcurrency, input, key, ok, found, caller,
                   jobs, history>>

\* delete(q.knownKeys, key) ; q.concurrency--
acknowledgeJob_Body ==
    /\ pc = "ack_body"
    /\ knownKeys' = knownKeys \ {key}
    /\ concurrency' = UintDec(concurrency)
    /\ pc' = "ack_unlock"
    /\ UNCHANGED <<queue, lock, maxConcurrency, input, key, ok, found, caller,
                   jobs, history>>

\* q.lock.Unlock() and return: to the for loop of HandleRequests, or to the
\* loop condition of cleanup.  The locals of a function that has returned
\* hold their zero values.
acknowledgeJob_Unlock ==
    /\ pc = "ack_unlock"
    /\ lock' = FALSE
    /\ pc' = IF caller = "cleanup" THEN "cleanup_check" ELSE "select"
    /\ key' = emptyKey
    /\ UNCHANGED <<qstate, maxConcurrency, input, ok, found, caller, jobs,
                   history>>

\* ---------------------------------------------------------- maybeDispatch
maybeDispatch_Lock ==
    /\ pc = "md_lock"
    /\ lock = FALSE
    /\ lock' = TRUE
    /\ pc' = "md_admit"
    /\ UNCHANGED <<qstate, maxConcurrency, input, key, ok, found, caller,
                   jobs, history>>

\* if q.concurrency < q.maxConcurrency && len(q.queue) > 0
maybeDispatch_Cond == concurrency < maxConcurrency /\ Len(queue) > 0

maybeDispatch_Admit ==
    /\ pc = "md_admit"
    /\ pc' = IF maybeDispatch_Cond THEN "dispatch_pop" ELSE "md_unlock"
    /\ caller' = "maybeDispatch"
    /\ UNCHANGED <<qstate, lock, maxConcurrency, input, key, ok, found, jobs,
                   history>>

\* q.lock.Unlock() and return to cleanup, which goes on to <-q.done
maybeDispatch_Unlock ==
    /\ pc = "md_unlock"
    /\ lock' = FALSE
    /\ pc' = "cleanup_recv"
    /\ caller' = "cleanup"
    /\ key' = emptyKey
    /\ UNCHANGED <<qstate, maxConcurrency, input, ok, found, jobs, history>>

\* -------------------------------------------------- queueAndMaybeDispatch
queueAndMaybeDispatch_Lock ==
    /\ pc = "qd_lock"
    /\ lock = FALSE
    /\ lock' = TRUE
    /\ pc' = "qd_push"
    /\ UNCHANGED <<qstate, maxConcurrency, input, key, ok, found, caller,
                   jobs, history>>

\* q.push(key)
queueAndMaybeDispatch_Push ==
    /\ pc = "qd_push"
    /\ push(key)
    /\ pc' = "qd_admit"
    /\ UNCHANGED <<concurrency, lock, maxConcurrency, input, key, ok, caller,
                   jobs, dispatched, invoked, warnings>>

\* the admission test without the concurrency limit
queueAndMaybeDispatch_Cond_NoLimit == Len(queue) > 0

\* the admission test without the test for a non-empty queue
queueAndMaybeDispatch_Cond_NoLen == concurrency < maxConcurrency

\* if q.concurrency < q.maxConcurrency && len(q.queue) > 0
queueAndMaybeDispatch_Cond == concurrency < maxConcurrency /\ Len(queue) > 0

queueAndMaybeDispatch_Admit ==
    /\ pc = "qd_admit"
    /\ pc' = IF queueAndMaybeDispatch_Cond THEN "dispatch_pop" ELSE "qd_unlock"
    /\ caller' = "queueAndMaybeDispatch"
    /\ UNCHANGED <<qstate, lock, maxConcurrency, input, key, ok, found, jobs,
                   history>>

\* q.lock.Unlock() and return to the for loop of HandleRequests
queueAndMaybeDispatch_Unlock ==
    /\ pc = "qd_unlock"
    /\ lock' = FALSE
    /\ pc' = "select"
    /\ caller' = "HandleRequests"
    /\ key' = emptyKey
    /\ found' = FALSE
    /\ UNCHANGED <<qstate, maxConcurrency, input, ok, jobs, history>>

\* ---------------------------------------------------------------- cleanup
\* for q.concurrency > 0 && len(q.queue) > 0
cleanup_Cond == concurrency > 0 /\ Len(queue) > 0

\* the loop condition: enter the body (q.maybeDispatch()) or return, and
\* with it return from HandleRequests
cleanup_Check ==
    /\ pc = "cleanup_check"
    /\ pc' = IF cleanup_Cond THEN "md_lock" ELSE "returned"
    /\ UNCHANGED <<qstate, lock, maxConcurrency, input, key, ok, found,
                   caller, jobs, history>>

\* key := <-q.done ; q.acknowledgeJob(key)
cleanup_Recv(k) ==
    /\ pc = "cleanup_recv"
    /\ sending[k] > 0
    /\ sending' = [sending EXCEPT ![k] = @ - 1]
    /\ key' = k
    /\ pc' = "ack_lock"
    /\ UNCHANGED <<qstate, lock, maxConcurrency, input, ok, found, caller,
                   spawned, running, history>>

\* --------------------------------------------------------- HandleRequests
\* case key, ok := <-q.inputChan, a value was sent
HandleRequests_Input(k) ==
    /\ pc = "select"
    /\ ~closed
    /\ nArrivals < MaxArrivals
    /\ nArrivals' = nArrivals + 1
    /\ key' = k
    /\ ok' = TRUE
    /\ pc' = "input"
    /\ UNCHANGED <<qstate, lock, maxConcurrency, closed, found, caller, jobs,
                   history>>

\* case key, ok := <-q.inputChan, the channel is closed: zero value, !ok
HandleRequests_Closed ==
    /\ pc = "select"
    /\ closed
    /\ key' = emptyKey
    /\ ok' = FALSE
    /\ pc' = "input"
    /\ UNCHANGED <<qstate, lock, maxConcurrency, input, found, caller, jobs,
                   history>>

\* the inputChan case without the emptyKey test
HandleRequests_Check_NoFilter ==
    /\ pc = "input"
    /\ pc' = IF ~ok THEN "cleanup_check" ELSE "qd_lock"
    /\ caller' = IF ~ok THEN "cleanup" ELSE caller
    /\ UNCHANGED <<qstate, lock, maxConcurrency, input, key, ok, found, jobs,
                   history>>

\* the inputChan case taking the zero value for a closed channel
HandleRequests_Check_EmptyCloses ==
    /\ pc = "input"
    /\ pc' = IF ~ok \/ key = emptyKey THEN "cleanup_check" ELSE "qd_lock"
    /\ caller' = IF ~ok \/ key = emptyKey THEN "cleanup" ELSE caller
    /\ UNCHANGED <<qstate, lock, maxConcurrency, input, key, ok, found, jobs,
                   history>>

\* the body of the inputChan case
HandleRequests_Check ==
    /\ pc = "input"
    /\ IF ~ok
       THEN /\ pc' = "cleanup_check"
            /\ caller' = "cleanup"
            /\ UNCHANGED warnings
       ELSE IF key = emptyKey
       THEN /\ warnings' = warnings + 1
            /\ pc' = "select"
            /\ UNCHANGED caller
       ELSE /\ pc' = "qd_lock"
            /\ UNCHANGED <<warnings, caller>>
    /\ UNCHANGED <<qstate, lock, maxConcurrency, input, key, ok, found, jobs,
                   accepted, dispatched, invoked>>

\* case key := <-q.done: q.acknowledgeJob(key)
HandleRequests_Done(k) ==
    /\ pc = "select"
    /\ sending[k] > 0
    /\ sending' = [sending EXCEPT ![k] = @ - 1]
    /\ key' = k
    /\ pc' = "ack_lock"
    /\ UNCHANGED <<qstate, lock, maxConcurrency, input, ok, found, caller,
                   spawned, running, history>>

\* ------------------------------------------------- use of the shared state
\* positions whose next statement reads or writes knownKeys, queue or
\* concurrency inside push, pop, dispatch, acknowledgeJob, maybeDispatch and
\* queueAndMaybeDispatch
LockedAccessPcs ==
    {"qd_push", "qd_admit", "dispatch_pop", "dispatch_go", "ack_body",
     "md_admit"}
\* the loop condition of cleanup reads q.concurrency and len(q.queue)
SharedAccessPcs == LockedAccessPcs \cup {"cleanup_check"}
\* positions where the coordinator waits on inputChan or done, or has left
\* every function that takes the mutex
WaitPcs == {"select", "cleanup_recv", "returned"}

\* ------------------------------------------------------- the specification
Coordinator ==
    \/ \E k \in AllKeys : HandleRequests_Input(k)
    \/ HandleRequests_Closed
    \/ HandleRequests_Check
    \/ \E k \in AllKeys : HandleRequests_Done(k)
    \/ queueAndMaybeDispatch_Lock
    \/ queueAndMaybeDispatch_Push
    \/ queueAndMaybeDispatch_Admit
    \/ queueAndMaybeDispatch_Unlock
    \/ dispatch_Pop
    \/ dispatch_Go
    \/ acknowledgeJob_Lock
    \/ acknowledgeJob_Body
    \/ acknowledgeJob_Unlock
    \/ cleanup_Check
    \/ \E k \in AllKeys : cleanup_Recv(k)
    \/ maybeDispatch_Lock
    \/ maybeDispatch_Admit
    \/ maybeDispatch_Unlock

Job ==
    \/ \E k \in AllKeys : processor_Start(k)
    \/ \E k \in AllKeys : processor_Return(k)

Next == Coordinator \/ Job \/ CloseInput

Spec == Init /\ [][Next]_vars

\* The producer eventually closes the input, every go-routine that can run
\* is scheduled, and every processor call returns.
FairSpec ==
    /\ Spec
    /\ WF_vars(CloseInput)
    /\ WF_vars(Coordinator)
    /\ \A k \in AllKeys : WF_vars(processor_Start(k))
    /\ \A k \in AllKeys : WF_vars(processor_Return(k))

TypeOK ==
    /\ concurrency \in 0..UintMax
    /\ knownKeys \subseteq AllKeys
    /\ lock \in BOOLEAN
    /\ maxConcurrency \in 1..MaxConcurrencyBound
    /\ closed \in BOOLEAN
    /\ nArrivals \in 0..MaxArrivals
    /\ key \in AllKeys
    /\ ok \in BOOLEAN
    /\ found \in BOOLEAN
    /\ caller \in {"HandleRequests", "cleanup", "queueAndMaybeDispatch",
                    "maybeDispatch"}
    /\ pc \in {"select", "input", "qd_lock", "qd_push", "qd_admit",
                "qd_unlock", "dispatch_pop", "dispatch_go", "ack_lock",
                "ack_body", "ack_unlock", "cleanup_check", "cleanup_recv",
                "md_lock", "md_admit", "md_unlock", "returned", "fatal"}

\* ================================================================ claims
\* C1: the active count stays within 0..maxConcurrency and the number of
\* processor calls executing at the same time never exceeds maxConcurrency.
BoundedConcurrency ==
    /\ 0 <= concurrency
    /\ concurrency <= maxConcurrency
    /\ NumRunning <= maxConcurrency

\* every slot is taken by a running processor call while a request waits
AllSlotsBusy ==
    /\ NumRunning = maxConcurrency
    /\ concurrency = maxConcurrency
    /\ Len(queue) > 0

\* C2: HandleRequests returns only with the pending sequence empty, the
\* active count zero and the known set empty.
DrainComplete ==
    pc = "returned" => Len(queue) = 0 /\ concurrency = 0 /\ knownKeys = {}

\* C3: when HandleRequests has returned, the processor has been invoked for
\* every identifier that push accepted.
NoIdentifierLost ==
    pc = "returned" =>
        \A k \in Keys : Count(invoked, k) = Count(accepted, k)

\* C4: a push of a key that is already in knownKeys leaves knownKeys, the
\* queue, the active count and the job go-routines unchanged.
DedupPush ==
    [][(pc = "qd_push" /\ pc' # pc /\ key \in knownKeys)
          => UNCHANGED <<knownKeys, queue, concurrency, spawned, running,
                         sending, accepted>>]_vars

\* a push was ignored for a key whose processor has returned and whose
\* completion is not yet acknowledged
DuplicateOfUnacknowledgedIgnored ==
    /\ pc = "qd_admit"
    /\ found
    /\ sending[key] > 0

\* C5: no identifier occurs twice in the queue, none is both queued and
\* active, and no identifier has two job go-routines.
OneInFlightPerKey ==
    /\ \A i, j \in 1..Len(queue) : queue[i] = queue[j] => i = j
    /\ \A k \in AllKeys : InSeq(queue, k) => Active(k) + Unacknowledged(k) = 0
    /\ \A k \in AllKeys : Active(k) + Unacknowledged(k) <= 1

\* a duplicate of a running key was ignored while other requests wait
DuplicateOfRunningIgnored ==
    /\ pc = "qd_admit"
    /\ found
    /\ running[key] = 1
    /\ Len(queue) > 0

\* C6 as stated: processor calls start in the order in which push accepted
\* the identifiers.
FIFOInvocation ==
    /\ Len(invoked) <= Len(accepted)
    /\ \A i \in 1..Len(invoked) : i <= Len(accepted) => invoked[i] = accepted[i]

\* C6 amended: identifiers are dispatched (popped and handed to a new
\* go-routine) in the order in which push accepted them, in the main loop
\* and in the drain phase.
FIFODispatch ==
    /\ Len(dispatched) <= Len(accepted)
    /\ \A i \in 1..Len(dispatched) : dispatched[i] = accepted[i]

\* the drain phase has dispatched a third identifier
ThirdDispatchedInDrain ==
    /\ pc = "md_unlock"
    /\ Len(dispatched) >= 3

\* C7: HandleRequests eventually returns, never while the input channel is
\* open, and having returned it stays returned.
Termination ==
    /\ <>(pc = "returned")
    /\ [](pc = "returned" => closed)
    /\ [][pc = "returned" => pc' = "returned"]_vars

\* HandleRequests has returned after requests were dispatched
ReturnedAfterWork ==
    /\ pc = "returned"
    /\ closed
    /\ Len(dispatched) >= 2

\* C8: when the main loop has handled a completion signal, no request is
\* left waiting while a slot is free.
AdmissionAfterCompletion ==
    [][(pc = "ack_unlock" /\ caller = "HandleRequests" /\ pc' = "select")
          => ~(Len(queue') > 0 /\ concurrency' < maxConcurrency')]_vars

\* C9: when HandleRequests has returned, every identifier that was accepted
\* again after its completion has had its processor invoked again.
ReadmittedIsProcessed ==
    pc = "returned" =>
        \A k \in Keys : Count(accepted, k) >= 2
                            => Count(invoked, k) = Count(accepted, k)

\* C10: receiving the empty identifier changes neither the known set, the
\* queue, the active count nor the jobs, and the loop goes back to select.
ReservedKeyFiltering ==
    [][(pc = "input" /\ ok /\ key = emptyKey /\ pc' # pc)
          => /\ pc' = "select"
             /\ UNCHANGED <<knownKeys, queue, concurrency, spawned, running,
                            sending, accepted, dispatched, invoked>>]_vars

\* the empty identifier has just been discarded with a warning
EmptyKeyDiscarded ==
    /\ pc = "select"
    /\ warnings > 0
    /\ emptyKey \notin knownKeys
    /\ ~InSeq(accepted, emptyKey)

\* C11: whenever the mutex is free, an identifier is in knownKeys exactly
\* when it is queued or is a dispatched job not yet acknowledged, and
\* |knownKeys| = len(queue) + concurrency.
KnownSetInvariant ==
    ~lock =>
        /\ \A k \in AllKeys :
              k \in knownKeys <=>
                  (InSeq(queue, k) \/ Active(k) + Unacknowledged(k) > 0)
        /\ Cardinality(knownKeys) = Len(queue) + concurrency

\* the mutex is free again after a dispatch whose job has not started, and
\* another request waits
JustDispatchedUnlocked ==
    /\ ~lock
    /\ Len(dispatched) > 0
    /\ spawned[dispatched[Len(dispatched)]] > 0
    /\ Len(queue) > 0

\* C12: no job go-routine is left behind: when HandleRequests has returned,
\* and so nothing receives from done any more, every dispatched job has had
\* its completion signal received.
JobsAllReceived ==
    pc = "returned" => \A k \in AllKeys : Active(k) = 0

\* C13: pop is never called on an empty queue: the log.Fatal of pop is
\* unreachable.
PopNeverFatal == pc # "fatal"

\* pop has taken the head of a non-empty queue in the drain phase
PoppedInDrain ==
    /\ pc = "dispatch_go"
    /\ caller = "maybeDispatch"
    /\ key \in Keys

\* C14 as stated: every read or write of the shared state, the loop
\* condition of cleanup included, happens with the mutex held, and the mutex
\* is free whenever the coordinator waits on a channel or has returned.
AllAccessLocked ==
    /\ pc \in SharedAccessPcs => lock
    /\ pc \in WaitPcs => ~lock

\* C14 amended: every write of the shared state, and every read of it inside
\* push, pop, dispatch, acknowledgeJob, maybeDispatch and
\* queueAndMaybeDispatch, happens with the mutex held; the loop condition of
\* cleanup reads it with the mutex free; the mutex is free whenever the
\* coordinator waits on a channel or has returned.
AccessLockedExceptDrainCondition ==
    /\ [](pc \in LockedAccessPcs => lock)
    /\ [](pc = "cleanup_check" => ~lock)
    /\ [](pc \in WaitPcs => ~lock)
    /\ [][qstate' # qstate => lock /\ lock']_vars

\* maybeDispatch has dispatched in the drain phase and released the mutex
\* before cleanup waits on done
DrainWaitsUnlocked ==
    /\ pc = "cleanup_recv"
    /\ ~lock
    /\ Len(dispatched) > 0
    /\ spawned[dispatched[Len(dispatched)]] > 0

\* C15: concurrency equals the number of jobs dispatched and not yet
\* acknowledged; only dispatch raises it and only acknowledgeJob lowers it,
\* each by one, and the decrement never meets a count of 0.
ActiveCountExact ==
    /\ [](concurrency = NumActive + Sum([k \in AllKeys |-> Unacknowledged(k)], AllKeys))
    /\ [][concurrency' > concurrency
             => pc = "dispatch_go" /\ concurrency' = concurrency + 1]_vars
    /\ [][concurrency' < concurrency
             => pc = "ack_body" /\ concurrency' = concurrency - 1]_vars
    /\ [][pc = "ack_body" /\ pc' # pc => concurrency > 0]_vars

\* the last active job has been acknowledged: the count went from 1 to 0
LastJobAcknowledged ==
    /\ pc = "ack_unlock"
    /\ concurrency = 0
    /\ Len(dispatched) > 0

\* C16: for every identifier the processor has been invoked at most as often
\* as push accepted it, and never on the empty identifier.
InvokedAtMostAccepted ==
    /\ \A k \in AllKeys : Count(invoked, k) <= Count(accepted, k)
    /\ \A k \in AllKeys : Count(dispatched, k) <= Count(accepted, k)
    /\ Count(invoked, emptyKey) = 0

\* after an empty key was discarded, a duplicate of an identifier whose
\* processor has been invoked was dropped
DuplicateDroppedAfterInvocation ==
    /\ pc = "qd_admit"
    /\ found
    /\ warnings > 0
    /\ Count(invoked, key) = 1
    /\ Count(accepted, key) = 1

\* C17: a step of a job go-routine (the start or the return of its processor
\* call, or its send on done) changes neither knownKeys, the queue,
\* concurrency nor the mutex; those change only in steps of the coordinator.
JobsLeaveQueueAlone ==
    /\ [][(running' # running \/ sending' # sending)
             => UNCHANGED <<knownKeys, queue, concurrency, lock>>]_vars
    /\ [][(qstate' # qstate \/ lock' # lock)
             => pc' # pc /\ UNCHANGED <<running, invoked>>]_vars

\* with the coordinator waiting in select, one processor call runs and
\* another job is blocked in its send on done
JobsRunAndSendWhileWaiting ==
    /\ pc = "select"
    /\ ~lock
    /\ NumRunning > 0
    /\ Sum(sending, AllKeys) > 0
====
